---- MODULE Spec2Model ----
(***************************************************************************)
(* Model of fix_email_parsers.py: three routines (fix_mbox, fix_msg,       *)
(* fix_vcf) that each load one Rust source file, apply a hard-coded        *)
(* sequence of re.sub / str.replace rewrites to the text in memory, store  *)
(* the text back and print a status line; the script's main block calls    *)
(* the three routines in order.                                            *)
(*                                                                         *)
(* A text is a sequence of tokens.  A token is a string of characters: a   *)
(* run of whitespace, or a fixed fragment of source text (the fragments    *)
(* are the pieces of the script's patterns between two \s+).  The text a   *)
(* sequence stands for is the concatenation of its tokens.                 *)
(***************************************************************************)
EXTENDS Integers, Sequences, FiniteSets, TLC

\* ---------------------------------------------------------------- bounds
\* Number of segments an input file is put together from.
MaxSegs == 2
\* Length of the whitespace run tried at one gap of a construct.
MaxRun == 2
\* Length of the texts the two-rule pipelines are tried on.
MaxLen == 2
\* Tokens of a text that reach the file before a write fails.
MaxPartial == 1

\* ------------------------------------------------------------ whitespace
SP == "<SP>"
TAB == "<TAB>"
NL == "<NL>"
CR == "<CR>"
\* "\n" followed by 8, 12, ... spaces: the indentation runs the script's
\* replacement texts hold.
IND8 == "<NL+8>"
IND12 == "<NL+12>"
IND16 == "<NL+16>"
IND20 == "<NL+20>"
IND24 == "<NL+24>"
IND28 == "<NL+28>"
IND32 == "<NL+32>"

\* Tokens that start with a line feed.
NlTokens == {NL, IND8, IND12, IND16, IND20, IND24, IND28, IND32}

\* Python's \s on a str pattern: space, tab, line feed, carriage return.
IsSpace(tok) == tok \in ({SP, TAB, CR} \cup NlTokens)

\* The pattern element \s+.
WS == "\\s+"

\* --------------------------------------------------------------- matcher
\* \s where the pattern has \s+: one whitespace character and no more.
SkipOneSpace(text, i) == i + 1

RECURSIVE SkipSpace(_, _)
\* \s+ is greedy: the first index at or after i that holds no whitespace.
SkipSpace(text, i) ==
    IF i <= Len(text) /\ IsSpace(text[i]) THEN SkipSpace(text, i + 1) ELSE i

RECURSIVE MatchEnd(_, _, _, _)
\* The pattern elements pat[k..] matched at text[i..]: the index after the
\* match, or 0 when there is none.  No token after a \s+ is whitespace, so
\* the greedy run is the only one that can match.
MatchEnd(pat, k, text, i) ==
    IF k > Len(pat) THEN i
    ELSE IF i > Len(text) THEN 0
    ELSE IF pat[k] = WS
         THEN IF IsSpace(text[i]) THEN MatchEnd(pat, k + 1, text, SkipSpace(text, i))
              ELSE 0
    ELSE IF text[i] = pat[k] THEN MatchEnd(pat, k + 1, text, i + 1)
    ELSE 0

RECURSIVE ExpandFrom(_, _, _, _)
\* The replacement template from item j on: \1 and \2 are the groups' texts,
\* every other item is emitted as it is.
ExpandFrom(repl, j, g1, g2) ==
    IF j > Len(repl) THEN << >>
    ELSE (IF repl[j] = "\\1" THEN g1
          ELSE IF repl[j] = "\\2" THEN g2
          ELSE << repl[j] >>) \o ExpandFrom(repl, j + 1, g1, g2)

\* The replacement of the match text[i..e-1] of a rule.  Group 1 is the
\* first rule.g1 pattern elements, group 2 the pattern's last element.
Expand(rule, text, i, e) ==
    IF rule.g1 = 0 THEN rule.repl
    ELSE ExpandFrom(rule.repl, 1,
                    SubSeq(text, i, MatchEnd(SubSeq(rule.pat, 1, rule.g1), 1, text, i) - 1),
                    << text[e - 1] >>)

RECURSIVE ReSubFrom(_, _, _)
\* re.sub: leftmost matches, not overlapping, each replaced; scanning goes on
\* after the match.
ReSubFrom(rule, text, i) ==
    IF i > Len(text) THEN << >>
    ELSE LET e == MatchEnd(rule.pat, 1, text, i)
         IN  IF e = 0 THEN << text[i] >> \o ReSubFrom(rule, text, i + 1)
             ELSE Expand(rule, text, i, e) \o ReSubFrom(rule, text, e)

ReSub(rule, text) == ReSubFrom(rule, text, 1)

RECURSIVE StrReplaceFrom(_, _, _, _)
StrReplaceFrom(old, new, text, i) ==
    IF i > Len(text) THEN << >>
    ELSE IF i + Len(old) - 1 <= Len(text) /\ SubSeq(text, i, i + Len(old) - 1) = old
         THEN new \o StrReplaceFrom(old, new, text, i + Len(old))
    ELSE << text[i] >> \o StrReplaceFrom(old, new, text, i + 1)

RECURSIVE StrReplaceFirst(_, _, _)
\* str.replace(old, new, 1): the first occurrence only.
StrReplaceFirst(old, new, text) ==
    IF text = << >> THEN << >>
    ELSE IF Len(old) <= Len(text) /\ SubSeq(text, 1, Len(old)) = old
         THEN new \o SubSeq(text, Len(old) + 1, Len(text))
    ELSE << Head(text) >> \o StrReplaceFirst(old, new, Tail(text))

\* str.replace(old, new): every occurrence, left to right, not overlapping.
StrReplace(old, new, text) == StrReplaceFrom(old, new, text, 1)

RECURSIVE CountFrom(_, _, _)
CountFrom(pat, text, i) ==
    IF i > Len(text) THEN 0
    ELSE LET e == MatchEnd(pat, 1, text, i)
         IN  IF e = 0 THEN CountFrom(pat, text, i + 1) ELSE 1 + CountFrom(pat, text, e)

\* The number of matches a rule replaces in a text.
Count(rule, text) == CountFrom(rule.pat, text, 1)

Occurs(rule, text) == Count(rule, text) > 0

\* One statement `content = re.sub(...)` or `content = content.replace(...)`.
Apply(rule, text) ==
    IF rule.kind = "replace" THEN StrReplace(rule.pat, rule.repl, text)
    ELSE ReSub(rule, text)

RECURSIVE ApplyFrom(_, _, _)
ApplyFrom(rs, k, text) ==
    IF k > Len(rs) THEN text ELSE ApplyFrom(rs, k + 1, Apply(rs[k], text))

\* The statements of a routine between its load and its store.
ApplyRules(rs, text) == ApplyFrom(rs, 1, text)

\* ----------------------------------------------------------------- rules
\* A rule is [id, kind, pat, g1, repl]: kind "sub" is a re.sub call, kind
\* "replace" a str.replace call; pat is the pattern as fragments and \s+
\* elements; g1 is the number of pattern elements group 1 spans (0: the
\* pattern has no groups); repl is the replacement as re.sub emits it.  The
\* triple-quoted replacements are not raw strings: their "\\n" reaches
\* re.sub as backslash-n, which the template turns into a line feed.
PushOpen == "text_runs.push(TextRun {"
PushClose == "});"
StyleDefault == "style: Default::default(),"
BoundsNone == "bounds: None,"
CharPosNone == "char_positions: None,"
DefaultRest == "..Default::default()"

\* The format! line the header pattern spells: \{}: \{}\}\\n is the text
\* {}: {}}\n, with a second closing brace.
HeaderFormatPattern == "text: format!(\"{}: {}}\\n\", label, value),"

HeaderPattern ==
    << "fn format_email_header(&self, label: &str, value: &str) -> TextRun {", WS,
       "TextRun {", WS,
       HeaderFormatPattern, WS,
       "style: TextStyle {", WS,
       "bold: label == \"From\" || label == \"To\" || label == \"Subject\",", WS,
       DefaultRest, WS,
       "},", WS,
       "}" >>

\* Group 1 ends with the "}," that closes the style field.
HeaderRule ==
    [id |-> "format_email_header", kind |-> "sub", pat |-> HeaderPattern, g1 |-> 13,
     repl |-> << "\\1", IND12, BoundsNone, IND12, CharPosNone, IND8, "\\2" >>]

NewlineRunRule ==
    [id |-> "newline_run", kind |-> "sub", g1 |-> 0,
     pat |-> << PushOpen, WS, "text: \"\\n\".to_string(),", WS, StyleDefault, WS, PushClose >>,
     repl |-> << PushOpen, IND12, "text: \"", NL, "\".to_string(),", IND12, StyleDefault,
                 IND12, BoundsNone, IND12, CharPosNone, IND8, PushClose >>]

\* textField is "text: body_text," in fix_mbox, "text: body_text.clone()," in fix_msg.
BodyRunRule(textField) ==
    [id |-> "body_run", kind |-> "sub", g1 |-> 0,
     pat |-> << PushOpen, WS, textField, WS, StyleDefault, WS, PushClose >>,
     repl |-> << PushOpen, IND12, textField, IND12, StyleDefault,
                 IND12, BoundsNone, IND12, CharPosNone, IND8, PushClose >>]

\* The three routines differ in the replacement's indentation only.
TextBlockRule(field, inner, close) ==
    [id |-> "text_block", kind |-> "sub", g1 |-> 0,
     pat |-> << "let text_block = TextBlock {", WS, "runs: text_runs,", WS, BoundsNone, WS, "};" >>,
     repl |-> << "let text_block = TextBlock {", field, "runs: text_runs,",
                 field, "bounds: prism_core::document::Rect {",
                 inner, "x: 0.0,", inner, "y: 0.0,",
                 inner, "width: Dimensions::LETTER.width,",
                 inner, "height: Dimensions::LETTER.height,",
                 field, "},", field, "paragraph_style: None,", close, "};" >>]

AddressFixed == "addr.address.as_ref().map(|a| a.to_string()).unwrap_or_default()"
AddressUnwrapOr == "addr.address.as_ref().unwrap_or(&String::new())"
AddressClone == "addr.address.clone().unwrap_or_default()"

AddressUnwrapOrRule ==
    [id |-> "address_unwrap_or", kind |-> "replace", g1 |-> 0,
     pat |-> << AddressUnwrapOr >>, repl |-> << AddressFixed >>]

\* The second edit writing the accessor the first edit is there to remove.
AddressCloneRuleStale ==
    [id |-> "address_clone", kind |-> "replace", g1 |-> 0,
     pat |-> << AddressClone >>, repl |-> << AddressUnwrapOr >>]

AddressCloneRule ==
    [id |-> "address_clone", kind |-> "replace", g1 |-> 0,
     pat |-> << AddressClone >>, repl |-> << AddressFixed >>]

MboxRules ==
    << HeaderRule, NewlineRunRule, BodyRunRule("text: body_text,"),
       TextBlockRule(IND28, IND32, IND24), AddressUnwrapOrRule, AddressCloneRule >>

TracingRule ==
    [id |-> "tracing_import", kind |-> "replace", g1 |-> 0,
     pat |-> << "use tracing::{debug, info, warn};" >>,
     repl |-> << "use tracing::{debug, info};" >>]

MsgRules ==
    << TracingRule, HeaderRule, NewlineRunRule, BodyRunRule("text: body_text.clone(),"),
       TextBlockRule(IND12, IND16, IND8) >>

FieldRule ==
    [id |-> "format_field", kind |-> "sub", g1 |-> 13,
     pat |-> << "fn format_field(&self, label: &str, value: &str, bold: bool) -> TextRun {", WS,
                "TextRun {", WS, HeaderFormatPattern, WS, "style: TextStyle {", WS,
                "bold,", WS, DefaultRest, WS, "},", WS, "}" >>,
     repl |-> << "\\1", IND12, BoundsNone, IND12, CharPosNone, IND8, "\\2" >>]

NoteTitleRule ==
    [id |-> "note_title", kind |-> "sub", g1 |-> 0,
     pat |-> << PushOpen, WS, "text: \"\\nNote:\\n\".to_string(),", WS, "style: TextStyle {", WS,
                "bold: true,", WS, DefaultRest, WS, "},", WS, PushClose >>,
     repl |-> << PushOpen, IND16, "text: \"", NL, "Note:", NL, "\".to_string(),",
                 IND16, "style: TextStyle {", IND20, "bold: true,", IND20, DefaultRest,
                 IND16, "},", IND16, BoundsNone, IND16, CharPosNone, IND12, PushClose >>]

\* \{}\}\\n spells {}}\n, as in the header patterns.
NoteFormatPattern == "text: format!(\"{}}\\n\", note),"

NoteRunRule ==
    [id |-> "note_run", kind |-> "sub", g1 |-> 0,
     pat |-> << PushOpen, WS, NoteFormatPattern, WS, StyleDefault, WS, PushClose >>,
     repl |-> << PushOpen, IND16, "text: format!(\"{}", NL, "\", note),", IND16, StyleDefault,
                 IND16, BoundsNone, IND16, CharPosNone, IND12, PushClose >>]

FilterRule ==
    [id |-> "address_filter", kind |-> "sub", g1 |-> 0,
     pat |-> << ".filter(|s| !s.is_empty())" >>,
     repl |-> << ".filter(|s: &&str| !s.is_empty())" >>]

VcfRules ==
    << FieldRule, NoteTitleRule, NoteRunRule, TextBlockRule(IND16, IND20, IND12), FilterRule >>

\* The routines in the order the main block calls them, and their files.
Routines == << "fix_mbox", "fix_msg", "fix_vcf" >>

FileOf(r) == << "mbox.rs", "msg.rs", "vcf.rs" >>[r]

RulesOf(r) == << MboxRules, MsgRules, VcfRules >>[r]

\* A routine's rewrite of a loaded text.
Fix(r, text) == ApplyRules(RulesOf(r), text)

\* ------------------------------------------------------------- file I/O
RECURSIVE ReadFrom(_, _)
\* open(path, 'r', encoding='utf-8') reads with universal newlines: "\r\n"
\* and a lone "\r" both reach the program as "\n".
ReadFrom(data, i) ==
    IF i > Len(data) THEN << >>
    ELSE IF data[i] = CR
         THEN (IF i < Len(data) /\ data[i + 1] \in NlTokens THEN << >> ELSE << NL >>)
              \o ReadFrom(data, i + 1)
    ELSE << data[i] >> \o ReadFrom(data, i + 1)

ReadText(data) == ReadFrom(data, 1)

RECURSIVE WriteFrom(_, _, _)
\* open(path, 'w', encoding='utf-8') writes "\n" as os.linesep.
WriteFrom(text, i, sep) ==
    IF i > Len(text) THEN << >>
    ELSE (IF text[i] \in NlTokens /\ sep = "\r\n" THEN << CR, text[i] >> ELSE << text[i] >>)
         \o WriteFrom(text, i + 1, sep)

WriteText(text, sep) == WriteFrom(text, 1, sep)

\* ----------------------------------------------------------------- state
VARIABLES
    cur,      \* the routine the main block is in (1..3), 4 after the last
    pc,       \* the statement the run is at
    k,        \* the next rewrite statement of the routine
    rules,    \* the routine's rewrite statements
    content,  \* the routine's variable `content`
    loaded,   \* what f.read() returned (history)
    disk,     \* the three files' contents
    orig,     \* the files' contents when the run started (history)
    out,      \* the lines printed so far
    status,   \* the exit status: -1 while running
    error,    \* the exception that ended the run, "none" without one
    linesep   \* os.linesep of the platform

vars == << cur, pc, k, rules, content, loaded, disk, orig, out, status, error, linesep >>

FixedLine(r) == [kind |-> "fixed", file |-> FileOf(r)]

AllFixedLine == [kind |-> "all_fixed", file |-> "*"]

\* ---------------------------------------------------------------- inputs
RECURSIVE Layout(_, _)
\* A pattern's fragments with `run` written at every \s+.
Layout(pat, run) ==
    IF pat = << >> THEN << >>
    ELSE (IF Head(pat) = WS THEN run ELSE << Head(pat) >>) \o Layout(Tail(pat), run)

\* The format! line as the Rust sources spell it.
HeaderFormatSource == "text: format!(\"{}: {}\\n\", label, value),"

\* The header method (format_email_header, format_field in vcf.rs) as the
\* Rust sources hold it.
SourceHeader(r) ==
    Layout([RulesOf(r)[IF r = 2 THEN 2 ELSE 1].pat EXCEPT ![5] = HeaderFormatSource], << IND12 >>)

\* The header method as the pattern spells it.
PatternHeader(r) == Layout(RulesOf(r)[IF r = 2 THEN 2 ELSE 1].pat, << IND12 >>)

\* The routine's TextRun push with a plain style (body text, note text).
RunRule(r) == RulesOf(r)[IF r = 2 THEN 4 ELSE 3]

\* The routine's literal edit: address_clone, tracing_import, address_filter.
EditRule(r) == RulesOf(r)[IF r = 2 THEN 1 ELSE IF r = 1 THEN 6 ELSE 5]

Other == "fn other() {}"

\* The literal edit's old text in another case.
UpperCase(r) ==
    << "ADDR.ADDRESS.CLONE().UNWRAP_OR_DEFAULT()", "USE TRACING::{DEBUG, INFO, WARN};",
       ".FILTER(|S| !S.IS_EMPTY())" >>[r]

\* The segments the input file of routine r is put together from: unrelated
\* text, line ends, the literal edit's old text (and its upper-case spelling
\* and new text), the two halves of the routine's TextRun push, the
\* TextBlock and the second TextRun push, and the header method as the
\* sources and as the pattern spell it.
Segs(r) ==
    << << Other >>,
       << CR >>,
       << NL >>,
       EditRule(r).pat,
       << UpperCase(r) >>,
       IF r = 1 THEN << AddressUnwrapOr >> ELSE EditRule(r).repl,
       Layout(SubSeq(RunRule(r).pat, 1, 3), << IND12 >>),
       Layout(SubSeq(RunRule(r).pat, 4, Len(RunRule(r).pat)), << IND12 >>),
       Layout(RulesOf(r)[IF r = 2 THEN 5 ELSE 4].pat, << NL, TAB >>),
       Layout(RulesOf(r)[IF r = 2 THEN 3 ELSE 2].pat, << SP >>),
       SourceHeader(r),
       PatternHeader(r) >>

NumSegs == Len(Segs(1))

SegChoices == UNION { [1..n -> 1..NumSegs] : n \in 0..MaxSegs }

RECURSIVE Join(_, _)
Join(segs, choice) ==
    IF choice = << >> THEN << >> ELSE segs[Head(choice)] \o Join(segs, Tail(choice))

\* ----------------------------------------------------------------- run
Init ==
    /\ \E choice \in SegChoices : disk = [r \in 1..3 |-> Join(Segs(r), choice)]
    /\ orig = disk
    /\ linesep \in {"\n", "\r\n"}
    /\ cur = 1
    /\ pc = "open_r"
    /\ k = 1
    /\ rules = << >>
    /\ content = << >>
    /\ loaded = << >>
    /\ out = << >>
    /\ status = -1
    /\ error = "none"

\* An exception nothing catches: the traceback is printed and the
\* interpreter exits with status 1.
Raise(e) ==
    /\ error' = e
    /\ status' = 1
    /\ pc' = "exited"

\* with open(path, 'r') as f: content = f.read()
OpenRead ==
    /\ pc = "open_r"
    /\ content' = ReadText(disk[cur])
    /\ loaded' = content'
    /\ rules' = RulesOf(cur)
    /\ k' = 1
    /\ pc' = "rules"
    /\ UNCHANGED << cur, disk, orig, out, status, error, linesep >>

\* A main block that catches the routine's exception and goes on to the
\* next routine.
OpenReadSkip ==
    /\ pc = "open_r"
    /\ error' = "read"
    /\ cur' = cur + 1
    /\ pc' = IF cur = Len(Routines) THEN "all_fixed" ELSE "open_r"
    /\ UNCHANGED << k, rules, content, loaded, disk, orig, out, status, linesep >>

\* The file is missing or unreadable, or its bytes are not UTF-8.
OpenReadFail ==
    /\ pc = "open_r"
    /\ Raise("read")
    /\ UNCHANGED << cur, k, rules, content, loaded, disk, orig, out, linesep >>

\* A rewrite statement that reads the loaded text, not the text the
\* statement before it produced.
ApplyRuleToLoaded ==
    /\ pc = "rules"
    /\ k <= Len(rules)
    /\ content' = Apply(rules[k], loaded)
    /\ k' = k + 1
    /\ UNCHANGED << cur, pc, rules, loaded, disk, orig, out, status, error, linesep >>

\* content = re.sub(...) / content = content.replace(...)
ApplyRule ==
    /\ pc = "rules"
    /\ k <= Len(rules)
    /\ content' = Apply(rules[k], content)
    /\ k' = k + 1
    /\ UNCHANGED << cur, pc, rules, loaded, disk, orig, out, status, error, linesep >>

\* open(path, 'w'): the file is truncated as it is opened.
OpenWrite ==
    /\ pc = "rules"
    /\ k > Len(rules)
    /\ disk' = [disk EXCEPT ![cur] = << >>]
    /\ pc' = "write"
    /\ UNCHANGED << cur, k, rules, content, loaded, orig, out, status, error, linesep >>

\* The file cannot be opened for writing.
OpenWriteFail ==
    /\ pc = "rules"
    /\ k > Len(rules)
    /\ Raise("open_w")
    /\ UNCHANGED << cur, k, rules, content, loaded, disk, orig, out, linesep >>

\* A store that writes the text as it was loaded.
WriteLoaded ==
    /\ pc = "write"
    /\ disk' = [disk EXCEPT ![cur] = WriteText(loaded, linesep)]
    /\ pc' = "print"
    /\ UNCHANGED << cur, k, rules, content, loaded, orig, out, status, error, linesep >>

\* f.write(content) and the close at the end of the with block.
Write ==
    /\ pc = "write"
    /\ disk' = [disk EXCEPT ![cur] = WriteText(content, linesep)]
    /\ pc' = "print"
    /\ UNCHANGED << cur, k, rules, content, loaded, orig, out, status, error, linesep >>

\* The write or the flush on close fails (disk full, I/O error) after n
\* tokens of the text reached the file: none, or a proper part of the text.
WriteFail ==
    /\ pc = "write"
    /\ \E n \in 0..MaxPartial :
           /\ n = 0 \/ n < Len(WriteText(content, linesep))
           /\ disk' = [disk EXCEPT ![cur] = SubSeq(WriteText(content, linesep), 1, n)]
    /\ Raise("write")
    /\ UNCHANGED << cur, k, rules, content, loaded, orig, out, linesep >>

\* print("Fixed <file>"), the routine returns, the main block goes on.
PrintFixed ==
    /\ pc = "print"
    /\ out' = Append(out, FixedLine(cur))
    /\ cur' = cur + 1
    /\ pc' = IF cur = Len(Routines) THEN "all_fixed" ELSE "open_r"
    /\ UNCHANGED << k, rules, content, loaded, disk, orig, status, error, linesep >>

\* print("All email parsers fixed!") and the end of the script.
PrintAllFixed ==
    /\ pc = "all_fixed"
    /\ out' = Append(out, AllFixedLine)
    /\ status' = 0
    /\ pc' = "exited"
    /\ UNCHANGED << cur, k, rules, content, loaded, disk, orig, error, linesep >>

Next ==
    \/ OpenRead
    \/ OpenReadFail
    \/ ApplyRule
    \/ OpenWrite
    \/ OpenWriteFail
    \/ Write
    \/ WriteFail
    \/ PrintFixed
    \/ PrintAllFixed

Spec == Init /\ [][Next]_vars

\* ------------------------------------------- layouts of one construct
RECURSIVE LayoutAt(_, _, _, _)
\* A pattern's fragments with `run` written at its g-th \s+ and `base` at
\* the others.
LayoutAt(pat, g, run, base) ==
    IF pat = << >> THEN << >>
    ELSE IF Head(pat) = WS
         THEN (IF g = 1 THEN run ELSE base) \o LayoutAt(Tail(pat), g - 1, run, base)
    ELSE << Head(pat) >> \o LayoutAt(Tail(pat), g, run, base)

\* The number of \s+ elements of a pattern.
Gaps(pat) == Cardinality({ i \in 1..Len(pat) : pat[i] = WS })

\* A fragment without its trailing comma.
NoComma(tok) ==
    IF tok = StyleDefault THEN "style: Default::default()"
    ELSE IF tok = BoundsNone THEN "bounds: None"
    ELSE IF tok = "}," THEN "}"
    ELSE tok

\* The construct of a pattern without the comma after its last field (the
\* fragment before the closing one).
DropComma(pat) == [pat EXCEPT ![Len(pat) - 2] = NoComma(pat[Len(pat) - 2])]

SpaceTokens == {SP, TAB, NL, CR}

Runs == UNION { [1..n -> SpaceTokens] : n \in 0..MaxRun }

\* One structural rule on one layout of its construct.
InitLayout ==
    /\ \E r \in 1..3 : \E j \in 1..Len(RulesOf(r)) : \E g \in 1..Gaps(HeaderPattern) :
       \E run \in Runs : \E base \in {<< SP >>, << IND12 >>} : \E comma \in BOOLEAN :
          /\ g <= Gaps(RulesOf(r)[j].pat)
          /\ cur = r
          /\ rules = << RulesOf(r)[j] >>
          /\ content = LayoutAt(IF comma THEN RulesOf(r)[j].pat ELSE DropComma(RulesOf(r)[j].pat),
                                g, run, base)
    /\ loaded = content
    /\ pc = "rules"
    /\ k = 1
    /\ disk = [r \in 1..3 |-> << >>]
    /\ orig = disk
    /\ linesep = "\n"
    /\ out = << >>
    /\ status = -1
    /\ error = "none"

SpecLayout == InitLayout /\ [][ApplyRule]_vars

\* --------------------------------------------- two rules in both orders
EditTokens == {AddressClone, AddressUnwrapOr, AddressFixed, Other}

\* The literal edits over the fragments of fix_mbox's two: the routine's own
\* (AddressUnwrapOr -> AddressFixed, AddressClone -> AddressFixed) and the
\* ones a caller could list with them.
Edits ==
    { [id |-> "edit", kind |-> "replace", g1 |-> 0, pat |-> << p[1] >>, repl |-> << p[2] >>] :
          p \in { q \in EditTokens \X EditTokens : q[1] # q[2] } }

InitOrder ==
    /\ rules \in { << a, b >> : a \in Edits, b \in Edits }
    /\ content \in UNION { [1..n -> EditTokens] : n \in 1..MaxLen }
    /\ loaded = content
    /\ cur = 1
    /\ pc = "rules"
    /\ k = 1
    /\ disk = [r \in 1..3 |-> << >>]
    /\ orig = disk
    /\ linesep = "\n"
    /\ out = << >>
    /\ status = -1
    /\ error = "none"

SpecOrder == InitOrder /\ [][ApplyRule]_vars

\* ================================================================ claims
\* Every rewrite statement of the routine has run.
RulesDone == pc = "rules" /\ k > Len(rules)

\* The file of routine r holds the routine's rewrite of what the run found.
Written(r) == disk[r] = WriteText(Fix(r, ReadText(orig[r])), linesep)

RECURSIVE ContainsFrom(_, _, _)
ContainsFrom(text, part, i) ==
    IF i + Len(part) - 1 > Len(text) THEN FALSE
    ELSE SubSeq(text, i, i + Len(part) - 1) = part \/ ContainsFrom(text, part, i + 1)

\* `part` is a run of consecutive tokens of `text`.
Contains(text, part) == ContainsFrom(text, part, 1)

\* C1: idempotence.  When a routine has applied its whole rule sequence, applying
\* the sequence again to the result changes nothing, and no rule of the
\* sequence matches anywhere in the result.
C1_Idempotent ==
    RulesDone =>
        /\ ApplyRules(rules, content) = content
        /\ \A j \in 1..Len(rules) : ~Occurs(rules[j], content)

\* Two different rules of one routine have each replaced something.
C1_Witness ==
    /\ RulesDone
    /\ \E i, j \in 1..Len(rules) : i # j /\ Occurs(rules[i], loaded) /\ Occurs(rules[j], loaded)
    /\ content # loaded

\* C2: no-op safety.  A file in which no rule of the routine matches is stored
\* back exactly as the run found it.
C2_NoOpStoredIdentical ==
    (pc = "print" /\ \A j \in 1..Len(rules) : ~Occurs(rules[j], loaded)) =>
        disk[cur] = orig[cur]

\* C3: the literal edit of fix_mbox.  The result holds no occurrence of
\* addr.address.clone().unwrap_or_default(); when no other rule of the routine
\* matches, each occurrence has become the fixed accessor and every other token
\* is the loaded text's, in place.
C3_LiteralEdit ==
    (RulesDone /\ rules = MboxRules) =>
        /\ \A i \in 1..Len(content) : content[i] # AddressClone
        /\ (\A j \in 1..(Len(rules) - 1) : ~Occurs(rules[j], loaded)) =>
              /\ Len(content) = Len(loaded)
              /\ \A i \in 1..Len(loaded) :
                    content[i] = IF loaded[i] = AddressClone THEN AddressFixed ELSE loaded[i]

\* The edit has replaced two occurrences next to text it left alone.
C3_Witness ==
    /\ RulesDone
    /\ rules = MboxRules
    /\ \A j \in 1..(Len(rules) - 1) : ~Occurs(rules[j], loaded)
    /\ \E i, j \in 1..Len(loaded) :
          /\ loaded[i] = AddressClone /\ content[i] = AddressFixed
          /\ loaded[j] = "ADDR.ADDRESS.CLONE().UNWRAP_OR_DEFAULT()" /\ content[j] = loaded[j]

\* The fragments of a text: its tokens that are not whitespace.
Fragments(text) == SelectSeq(text, LAMBDA tok : tok \notin (SpaceTokens \cup NlTokens) /\ tok # WS)

\* Between any two fragments of the text there is whitespace.
Separated(text) ==
    \A i \in 1..(Len(text) - 1) :
        text[i] \in (SpaceTokens \cup NlTokens) \/ text[i + 1] \in (SpaceTokens \cup NlTokens)

\* The single rule of a layout run has been applied.
LayoutDone == pc = "rules" /\ Len(rules) = 1 /\ k = 2

\* C4 as stated: a structural rule rewrites its construct whatever the run of
\* whitespace between its fragments, a run of length zero included, with or
\* without the comma after the last field.
C4_AnyRunMatches ==
    (LayoutDone /\ Fragments(loaded) \in { Fragments(rules[1].pat), Fragments(DropComma(rules[1].pat)) })
        => content # loaded

\* C4 amended: a structural rule rewrites a layout of its construct exactly when
\* the layout holds all the pattern's fragments, the comma after the last
\* field included, and at least one whitespace character (space, tab, line
\* feed, carriage return, in any mix) between any two of them.
C4_NonEmptyRunMatches ==
    LayoutDone =>
        /\ content # loaded <=> (Fragments(loaded) = Fragments(rules[1].pat) /\ Separated(loaded))
        /\ Occurs(rules[1], loaded) <=> content # loaded

\* A compact one-line layout with a two-character run (tab, carriage return)
\* at one gap has been rewritten.
C4_Witness ==
    /\ LayoutDone
    /\ content # loaded
    /\ \E i \in 1..(Len(loaded) - 1) : loaded[i] = TAB /\ loaded[i + 1] = CR
    /\ \A i \in 1..Len(loaded) : loaded[i] # IND12

\* The two rules of an order run have both been applied.
OrderDone == pc = "rules" /\ Len(rules) = 2 /\ k = 3

\* B's pattern is what A writes, A's pattern occurs in the text and B's does not.
Chained(a, b, text) == a.repl = b.pat /\ Occurs(a, text) /\ ~Occurs(b, text)

C6_DiagnosticsReported ==
    pc = "print" =>
        \A j \in 1..Len(rules) : \E i \in 1..Len(out) :
            /\ out[i].kind = "diagnostic"
            /\ out[i].file = FileOf(cur)
            /\ out[i].ruleId = rules[j].id
            /\ out[i].matchCount = Count(rules[j], ApplyRules(SubSeq(rules, 1, j - 1), loaded))

\* C7: no half-transformed file.  When the run has ended, every file holds its
\* whole original text or its whole transformed text.
C7_NoHalfTransformedFile ==
    pc = "exited" => \A r \in 1..3 : disk[r] = orig[r] \/ Written(r)

\* C8 as stated: per-file failure isolation.  When the run has ended, all three
\* routines have been attempted.
C8_AllFilesAttempted ==
    pc = "exited" => \A r \in 1..3 : r <= cur

\* C8 amended: a failure in one routine ends the run there with status 1.  The
\* routines before it have stored their files, the routines after it are not
\* attempted and their files are as the run found them; all three routines
\* are attempted exactly in the runs without a failure.
C8_StopsAtFirstFailure ==
    /\ error # "none" =>
          /\ pc = "exited" /\ status = 1
          /\ cur \in 1..3
          /\ \A r \in 1..3 : r < cur => Written(r)
          /\ \A r \in 1..3 : r > cur => disk[r] = orig[r]
    /\ (pc = "exited" /\ error = "none") => cur = 4

\* fix_mbox has failed on a run whose msg.rs and vcf.rs hold a construct their
\* routines rewrite: both files are untouched.
C8_Witness ==
    /\ pc = "exited"
    /\ error = "read"
    /\ cur = 1
    /\ \A r \in 2..3 : Fix(r, ReadText(orig[r])) # ReadText(orig[r]) /\ disk[r] = orig[r]

\* C9: the run's outcome.  The lines printed are a prefix of Fixed mbox.rs,
\* Fixed msg.rs, Fixed vcf.rs, All email parsers fixed!; a file's line is
\* printed only with the file written; the run exits 0 exactly with the last
\* line printed; an exception ends the run with status 1 and without that line.
C9_RunOutcome ==
    /\ \E n \in 0..4 :
          out = SubSeq(<< FixedLine(1), FixedLine(2), FixedLine(3), AllFixedLine >>, 1, n)
    /\ \A r \in 1..3 : Len(out) >= r => Written(r)
    /\ status = 0 <=> Len(out) = 4
    /\ pc = "exited" <=> status # -1
    /\ error # "none" => pc = "exited" /\ status = 1 /\ Len(out) < 4

\* The run has ended on an exception in fix_msg, after Fixed mbox.rs.
C9_Witness ==
    /\ pc = "exited"
    /\ error = "write"
    /\ out = << FixedLine(1) >>
    /\ cur = 2

\* The header method of routine r with the two fields after the style field.
FixedHeader(r) ==
    SubSeq(SourceHeader(r), 1, Len(SourceHeader(r)) - 2)
        \o << IND12, BoundsNone, IND12, CharPosNone, IND8, "}" >>

\* C10: the header-method fix.  A loaded text that holds the header method as
\* the Rust sources spell it holds, after the routine's rules, the method with
\* bounds: None and char_positions: None after the style field.
C10_HeaderMethodFixed ==
    (RulesDone /\ Contains(loaded, SourceHeader(cur))) => Contains(content, FixedHeader(cur))

====
